---- MODULE Spec2Model ----
(***************************************************************************)
(* The client-side data access layer of the campaign dashboard:            *)
(*   - the localStorage repository (getCampaigns .. calculateRealStats),   *)
(*   - campaignService, which tries the REST API first and falls back to   *)
(*     the repository when the call fails.                                 *)
(* Source: src/frontend/src/components/Layout/Sidebar.tsx, lines 61-387.   *)
(*                                                                         *)
(* JavaScript values are modelled as follows.  An object is a record; an   *)
(* optional property that is not set is a key missing from the record's    *)
(* DOMAIN.  Free text (name, description, search) is a sequence of         *)
(* one-character strings so that toLowerCase and includes can be computed; *)
(* enumerated strings (status, priority, channel) are TLA+ strings.  The   *)
(* clock counts milliseconds.                                              *)
(***************************************************************************)
EXTENDS Integers, Sequences, FiniteSets

\* ------------------------------------------------------------- bounds
\* The largest number of campaigns a run puts in the store.
MaxCampaigns == 2
\* The last millisecond of the run.
MaxClock == 1
\* The largest number of calls in flight at the same time.
MaxPending == 2
\* The largest number of campaigns a store from earlier sessions holds.
MaxStored == 12

\* --------------------------------------------------- program constants
\* filters.limit || 10
DefaultLimit == 10

CAMPAIGNS_KEY == "inmax_campaigns"
DASHBOARD_CONFIG_KEY == "inmax_dashboard_config"

VARIABLES
    localStorage,   \* window.localStorage: key -> stored item
    quota,          \* how many campaign records the browser lets the entry hold
    jitter,         \* whether the clock may tick while a synchronous call runs
    now,            \* the wall clock, in milliseconds
    last,           \* the last completed campaignService call, with the
                    \* store as it was when the call started
    pending         \* the calls awaiting the answer of their remote request

vars == <<localStorage, quota, jitter, now, last, pending>>

\* ------------------------------------------------------ JavaScript values
Min(a, b) == IF a <= b THEN a ELSE b
Max(a, b) == IF a >= b THEN a ELSE b

\* null, as returned by updateCampaign and getCampaignById
Null == [null |-> TRUE]
\* an object literal with no properties, and an undefined argument
EmptyObj == [k \in {} |-> 0]
Undefined == [undefined |-> TRUE]

Has(obj, key) == obj # Undefined /\ key \in DOMAIN obj

\* { ...a, ...b }
Spread(a, b) ==
    [k \in DOMAIN a \cup DOMAIN b |-> IF k \in DOMAIN b THEN b[k] ELSE a[k]]

\* Number.prototype.toString(), base 10, for n >= 0
Digit == <<"0", "1", "2", "3", "4", "5", "6", "7", "8", "9">>
RECURSIVE ToString(_)
ToString(n) ==
    IF n < 10 THEN <<Digit[n + 1]>>
    ELSE ToString(n \div 10) \o <<Digit[(n % 10) + 1]>>

\* Date.prototype.toISOString() of the instant t: an injective rendering of
\* the millisecond count.
toISOString(t) == <<"ISO", t>>

\* String.prototype.toLowerCase(), per character
LowerChar(c) ==
    CASE c = "V" -> "v"
      [] c = "E" -> "e"
      [] c = "A" -> "a"
      [] OTHER -> c
toLowerCase(s) == [i \in 1..Len(s) |-> LowerChar(s[i])]

\* String.prototype.includes(): needle occurs as a contiguous substring
includes(s, needle) ==
    \E i \in 0..(Len(s) - Len(needle)) :
        \A j \in 1..Len(needle) : s[i + j] = needle[j]

\* Array.prototype.slice(start, end) for 0 <= start <= end (0-based, end
\* exclusive, both clamped to the length)
slice(arr, start, end) ==
    LET lo == Min(start, Len(arr))
        hi == Min(end, Len(arr))
    IN  [i \in 1..(hi - lo) |-> arr[lo + i]]

\* Array.prototype.filter
filter(arr, Test(_)) == SelectSeq(arr, Test)

\* Array.prototype.findIndex by id: 0-based index of the first match, or -1
findIndex(campaigns, id) ==
    IF \E i \in 1..Len(campaigns) : campaigns[i].id = id
    THEN (CHOOSE i \in 1..Len(campaigns) :
             /\ campaigns[i].id = id
             /\ \A j \in 1..(i - 1) : campaigns[j].id # id) - 1
    ELSE -1

\* Array.prototype.reduce((sum, c) => sum + term(c), 0), given the terms
RECURSIVE reduce(_)
reduce(terms) ==
    IF terms = <<>> THEN 0 ELSE Head(terms) + reduce(Tail(terms))

\* ----------------------------------------------------------- localStorage
\* A stored item is absent, text that JSON.parse rejects, or the
\* JSON.stringify of a value.  On the values of this model (strings, finite
\* numbers, arrays and objects without undefined properties) JSON.parse
\* returns the value that JSON.stringify was given.
NoItem == [item |-> "none"]
CorruptItem == [item |-> "corrupt"]
stringify(value) == [item |-> "json", value |-> value]

\* getItem(key) ? JSON.parse(item) : fallback, inside try/catch
ParseOr(item, fallback) ==
    IF item.item = "json" THEN item.value ELSE fallback

\* localStorage.setItem throws QuotaExceededError when the value does not
\* fit: the campaigns entry when it holds more records than there is room
\* for, the (fixed-size) configuration entry when there is no room at all
setItemThrows(key, value, q) ==
    IF key = CAMPAIGNS_KEY THEN Len(value) > q ELSE q = 0

\* Mutant: text that JSON.parse rejects is taken for one stored campaign
getCampaigns_noCatch(ls) ==
    IF ls[CAMPAIGNS_KEY] = CorruptItem
    THEN <<[id |-> <<"0">>, name |-> <<"a">>, budget |-> 5, status |-> "active"]>>
    ELSE ParseOr(ls[CAMPAIGNS_KEY], <<>>)

\* Lines 101-109
getCampaigns(ls) == ParseOr(ls[CAMPAIGNS_KEY], <<>>)

\* Mutant: a write that fails leaves the entry cleared
saveCampaigns_clears(campaigns, ls, q) ==
    IF setItemThrows(CAMPAIGNS_KEY, campaigns, q)
    THEN [ls EXCEPT ![CAMPAIGNS_KEY] = NoItem]
    ELSE [ls EXCEPT ![CAMPAIGNS_KEY] = stringify(campaigns)]

\* The store after saveCampaigns(campaigns): the write, or nothing when
\* setItem throws (the catch only logs).
saveCampaigns(campaigns, ls, q) ==
    IF setItemThrows(CAMPAIGNS_KEY, campaigns, q)
    THEN ls
    ELSE [ls EXCEPT ![CAMPAIGNS_KEY] = stringify(campaigns)]

saveCampaignsLog(campaigns, q) ==
    IF setItemThrows(CAMPAIGNS_KEY, campaigns, q)
    THEN <<"error: Error saving campaigns:">>
    ELSE <<>>

\* -------------------------------------------------- dashboard configuration
\* Lines 83-98
defaultDashboardConfig ==
    [widgets |-> [totalCampaigns |-> TRUE, activeCampaigns |-> TRUE,
                  totalViews |-> TRUE, conversions |-> TRUE,
                  totalSpend |-> TRUE, totalClicks |-> TRUE],
     charts |-> [performanceChart |-> TRUE, conversionChart |-> TRUE,
                 spendChart |-> TRUE],
     layout |-> "grid"]

\* Mutant: the stored configuration is ignored
getDashboardConfig_default(ls) == defaultDashboardConfig

\* Lines 182-190
getDashboardConfig(ls) == ParseOr(ls[DASHBOARD_CONFIG_KEY], defaultDashboardConfig)

\* Lines 192-198: the store afterwards, and what was logged
saveDashboardConfig(config, ls, q) ==
    IF setItemThrows(DASHBOARD_CONFIG_KEY, config, q)
    THEN [ls |-> ls, logs |-> <<"error: Error saving dashboard config:">>]
    ELSE [ls |-> [ls EXCEPT ![DASHBOARD_CONFIG_KEY] = stringify(config)],
          logs |-> <<>>]

\* ------------------------------------------------------------- repository
\* campaignData.priority || 'medium' and the like: the property when it is
\* set and truthy ("" is falsy; an array, even an empty one, is truthy)
OrElse(obj, key, default) ==
    IF Has(obj, key) /\ obj[key] # "" THEN obj[key] ELSE default
OrElseArray(obj, key, default) ==
    IF Has(obj, key) THEN obj[key] ELSE default

\* Mutant: the new record carries the flat counters only, as the backend's do
newCampaign_flatOnly(campaignData, t) ==
    Spread(Spread([id |-> ToString(t[1])], campaignData),
           [status |-> "draft",
            user_id |-> "1",
            priority |-> OrElse(campaignData, "priority", "medium"),
            target_locations |-> OrElseArray(campaignData, "target_locations", <<>>),
            media_files |-> OrElseArray(campaignData, "media_files", <<>>),
            created_at |-> toISOString(t[2]),
            updated_at |-> toISOString(t[3]),
            createdAt |-> toISOString(t[4]),
            updatedAt |-> toISOString(t[5]),
            views_count |-> 0,
            clicks_count |-> 0,
            conversions_count |-> 0])

\* The record addCampaign builds (lines 121-142).  t holds the five clock
\* readings of Date.now() and the four new Date(), in the order they are made.
newCampaign(campaignData, t) ==
    Spread(Spread([id |-> ToString(t[1])], campaignData),
           [status |-> "draft",
            user_id |-> "1",
            priority |-> OrElse(campaignData, "priority", "medium"),
            target_locations |-> OrElseArray(campaignData, "target_locations", <<>>),
            media_files |-> OrElseArray(campaignData, "media_files", <<>>),
            created_at |-> toISOString(t[2]),
            updated_at |-> toISOString(t[3]),
            createdAt |-> toISOString(t[4]),
            updatedAt |-> toISOString(t[5]),
            views_count |-> 0,
            clicks_count |-> 0,
            conversions_count |-> 0,
            stats |-> [views |-> 0, clicks |-> 0, conversions |-> 0, spend |-> 0]])

\* addCampaign: the store afterwards, the returned record and what it logged
\* Mutant: the new campaign replaces the stored sequence
addCampaign_overwrite(campaignData, ls, q, t) ==
    LET campaigns == <<newCampaign(campaignData, t)>>
    IN  [ls |-> saveCampaigns(campaigns, ls, q),
         ret |-> newCampaign(campaignData, t),
         logs |-> saveCampaignsLog(campaigns, q)]

addCampaign(campaignData, ls, q, t) ==
    LET campaigns == Append(getCampaigns(ls), newCampaign(campaignData, t))
    IN  [ls |-> saveCampaigns(campaigns, ls, q),
         ret |-> newCampaign(campaignData, t),
         logs |-> saveCampaignsLog(campaigns, q)]

\* Mutant: the stored record is replaced by the updates instead of merged
updateCampaign_replace(id, updates, ls, q, t) ==
    LET campaigns == getCampaigns(ls)
        index == findIndex(campaigns, id)
        merged == Spread(Spread([id |-> id], updates),
                         [updated_at |-> toISOString(t[1]),
                          updatedAt |-> toISOString(t[2])])
        written == [campaigns EXCEPT ![index + 1] = merged]
    IN  IF index = -1
        THEN [ls |-> ls, ret |-> Null, logs |-> <<>>]
        ELSE [ls |-> saveCampaigns(written, ls, q),
              ret |-> merged,
              logs |-> saveCampaignsLog(written, q)]

\* Mutant: an update of an id that is not stored inserts a record
updateCampaign_upsert(id, updates, ls, q, t) ==
    LET campaigns == getCampaigns(ls)
        index == findIndex(campaigns, id)
        stamps == [updated_at |-> toISOString(t[1]), updatedAt |-> toISOString(t[2])]
        merged == Spread(Spread(IF index = -1 THEN [id |-> id]
                                ELSE campaigns[index + 1], updates), stamps)
        written == IF index = -1 THEN Append(campaigns, merged)
                   ELSE [campaigns EXCEPT ![index + 1] = merged]
    IN  [ls |-> saveCampaigns(written, ls, q),
         ret |-> merged,
         logs |-> saveCampaignsLog(written, q)]

\* Mutant: a field the stored record already has keeps its stored value
updateCampaign_keepStored(id, updates, ls, q, t) ==
    LET campaigns == getCampaigns(ls)
        index == findIndex(campaigns, id)
        merged == Spread(Spread(updates, campaigns[index + 1]),
                         [updated_at |-> toISOString(t[1]),
                          updatedAt |-> toISOString(t[2])])
        written == [campaigns EXCEPT ![index + 1] = merged]
    IN  IF index = -1
        THEN [ls |-> ls, ret |-> Null, logs |-> <<>>]
        ELSE [ls |-> saveCampaigns(written, ls, q),
              ret |-> merged,
              logs |-> saveCampaignsLog(written, q)]

\* Mutant: the merged record is moved to the end of the sequence
updateCampaign_moveToEnd(id, updates, ls, q, t) ==
    LET campaigns == getCampaigns(ls)
        index == findIndex(campaigns, id)
        merged == Spread(Spread(campaigns[index + 1], updates),
                         [updated_at |-> toISOString(t[1]),
                          updatedAt |-> toISOString(t[2])])
        written == Append(SubSeq(campaigns, 1, index)
                             \o SubSeq(campaigns, index + 2, Len(campaigns)),
                          merged)
    IN  IF index = -1
        THEN [ls |-> ls, ret |-> Null, logs |-> <<>>]
        ELSE [ls |-> saveCampaigns(written, ls, q),
              ret |-> merged,
              logs |-> saveCampaignsLog(written, q)]

\* Mutant: the update writes back the record it merged and nothing else
updateCampaign_writesOne(id, updates, ls, q, t) ==
    LET campaigns == getCampaigns(ls)
        index == findIndex(campaigns, id)
        merged == Spread(Spread(campaigns[index + 1], updates),
                         [updated_at |-> toISOString(t[1]),
                          updatedAt |-> toISOString(t[2])])
        written == <<merged>>
    IN  IF index = -1
        THEN [ls |-> ls, ret |-> Null, logs |-> <<>>]
        ELSE [ls |-> saveCampaigns(written, ls, q),
              ret |-> merged,
              logs |-> saveCampaignsLog(written, q)]

\* updateCampaign: t holds the two clock readings of the two new Date()
updateCampaign(id, updates, ls, q, t) ==
    LET campaigns == getCampaigns(ls)
        index == findIndex(campaigns, id)
        merged == Spread(Spread(campaigns[index + 1], updates),
                         [updated_at |-> toISOString(t[1]),
                          updatedAt |-> toISOString(t[2])])
        written == [campaigns EXCEPT ![index + 1] = merged]
    IN  IF index = -1
        THEN [ls |-> ls, ret |-> Null, logs |-> <<>>]
        ELSE [ls |-> saveCampaigns(written, ls, q),
              ret |-> merged,
              logs |-> saveCampaignsLog(written, q)]

\* Mutant: only the first record of that id is removed (splice at findIndex)
deleteCampaign_firstOnly(id, ls, q) ==
    LET campaigns == getCampaigns(ls)
        index == findIndex(campaigns, id)
        filteredCampaigns ==
            [i \in 1..(Len(campaigns) - 1) |->
                IF i <= index THEN campaigns[i] ELSE campaigns[i + 1]]
    IN  IF index = -1
        THEN [ls |-> ls, ret |-> FALSE, logs |-> <<>>]
        ELSE [ls |-> saveCampaigns(filteredCampaigns, ls, q),
              ret |-> TRUE,
              logs |-> saveCampaignsLog(filteredCampaigns, q)]

deleteCampaign(id, ls, q) ==
    LET campaigns == getCampaigns(ls)
        Keep(c) == c.id # id
        filteredCampaigns == filter(campaigns, Keep)
    IN  IF Len(filteredCampaigns) = Len(campaigns)
        THEN [ls |-> ls, ret |-> FALSE, logs |-> <<>>]
        ELSE [ls |-> saveCampaigns(filteredCampaigns, ls, q),
              ret |-> TRUE,
              logs |-> saveCampaignsLog(filteredCampaigns, q)]

\* campaigns.find(c => c.id === id) || null
getCampaignById(id, ls) ==
    LET campaigns == getCampaigns(ls)
        index == findIndex(campaigns, id)
    IN  IF index = -1 THEN Null ELSE campaigns[index + 1]

\* ----------------------------------------------------------- stats engine
\* Mutant: only the nested shape is read
nestedOrFlat_nestedOnly(c, nested, flat) ==
    IF Has(c, "stats") /\ Has(c.stats, nested) THEN c.stats[nested] ELSE 0

\* c.stats?.views || c.views_count || 0: the nested value when it is set and
\* not zero, else the flat one when it is set and not zero, else 0
nestedOrFlat(c, nested, flat) ==
    LET n == IF Has(c, "stats") /\ Has(c.stats, nested) THEN c.stats[nested] ELSE 0
        f == IF Has(c, flat) THEN c[flat] ELSE 0
    IN  IF n # 0 THEN n ELSE IF f # 0 THEN f ELSE 0

\* calculatePercentageChange (lines 213-216); Math.random() is r / 10
calculatePercentageChange(current, r) ==
    LET previous == Max(0, current - ((r * current * 3) \div 100))
    IN  IF previous > 0
        THEN ((200 * (current - previous)) + previous) \div (2 * previous)
        ELSE 0

\* Mutant: every stored campaign is counted as active
realStatsValues_allActive(campaigns) ==
    LET terms(nested, flat) ==
            [i \in 1..Len(campaigns) |-> nestedOrFlat(campaigns[i], nested, flat)]
    IN  [totalCampaigns |-> Len(campaigns),
         activeCampaigns |-> Len(campaigns),
         totalViews |-> reduce(terms("views", "views_count")),
         totalClicks |-> reduce(terms("clicks", "clicks_count")),
         conversions |-> reduce(terms("conversions", "conversions_count")),
         totalSpend |-> reduce(terms("spend", "budget"))]

\* The six value fields of calculateRealStats (lines 202-210)
realStatsValues(campaigns) ==
    LET Active(c) == c.status = "active"
        terms(nested, flat) ==
            [i \in 1..Len(campaigns) |-> nestedOrFlat(campaigns[i], nested, flat)]
    IN  [totalCampaigns |-> Len(campaigns),
         activeCampaigns |-> Len(filter(campaigns, Active)),
         totalViews |-> reduce(terms("views", "views_count")),
         totalClicks |-> reduce(terms("clicks", "clicks_count")),
         conversions |-> reduce(terms("conversions", "conversions_count")),
         totalSpend |-> reduce(terms("spend", "budget"))]

StatNames ==
    <<"totalCampaigns", "activeCampaigns", "totalViews", "totalClicks",
      "conversions", "totalSpend">>

\* Mutant: the value reported is the synthesized previous-period figure
calculateRealStats_previous(ls, rnd) ==
    LET values == realStatsValues(getCampaigns(ls))
    IN  [n \in {StatNames[i] : i \in 1..6} |->
            LET i == CHOOSE k \in 1..6 : StatNames[k] = n
            IN  [value |-> Max(0, values[n] - ((rnd[i] * values[n] * 3) \div 100)),
                 change |-> calculatePercentageChange(values[n], rnd[i])]]

\* calculateRealStats: rnd holds the six Math.random() draws, in call order
calculateRealStats(ls, rnd) ==
    LET values == realStatsValues(getCampaigns(ls))
    IN  [n \in {StatNames[i] : i \in 1..6} |->
            LET i == CHOOSE k \in 1..6 : StatNames[k] = n
            IN  [value |-> values[n],
                 change |-> calculatePercentageChange(values[n], rnd[i])]]

\* ---------------------------------------------------------- remote gateway
\* What `await api.<verb>(...)` does: it resolves with a response whose data
\* the backend chose, or it rejects (network error, timeout, non-2xx status).
Resolved(data) == [status |-> "resolved", data |-> data]
Rejected(why) == [status |-> "rejected", why |-> why]
Rejections == {Rejected("Network Error"), Rejected("HTTP 404")}

\* A campaign as the backend returns it: server-generated id, flat counters
RemoteCampaign ==
    [id |-> <<"5", "0", "7", "f">>, name |-> <<"V", "E">>, budget |-> 5,
     channel |-> "display", start_date |-> "2024-11-01",
     end_date |-> "2024-11-30", user_id |-> "507e", status |-> "draft",
     priority |-> "medium", target_locations |-> <<>>, media_files |-> <<>>,
     created_at |-> toISOString(0), updated_at |-> toISOString(0),
     views_count |-> 0, clicks_count |-> 0, conversions_count |-> 0]
RemoteList ==
    [campaigns |-> <<RemoteCampaign>>, total |-> 1, page |-> 1, size |-> 10,
     pages |-> 1]
RemoteStats == [views |-> 1, clicks |-> 1, conversions |-> 0, spend |-> 5]
RemoteDashboardStats ==
    [total_campaigns |-> 1, active_campaigns |-> 0, total_views |-> 1,
     total_clicks |-> 1, total_conversions |-> 0, total_spent |-> 5]

\* ----------------------------------------------------------- the service
\* How a call of an async method settles
Return(value) == [kind |-> "return", value |-> value]
Throw(error) == [kind |-> "throw", error |-> error]

\* What a method did: the store afterwards, how it settled, what it logged
Done(ls, outcome, logs) == [ls |-> ls, outcome |-> outcome, logs |-> logs]

\* The filters read as `filters.status` truthy, `filters?.page` truthy, ...
Truthy(filters, key, falsy) == Has(filters, key) /\ filters[key] # falsy

\* Mutant: the search looks at the name only
matchesSearch_nameOnly(c, searchLower) ==
    includes(toLowerCase(c.name), searchLower)

\* Lines 276-279: the search predicate, given the lower-cased search text
matchesSearch(c, searchLower) ==
    \/ includes(toLowerCase(c.name), searchLower)
    \/ /\ Has(c, "description") /\ c.description # <<>>
       /\ includes(toLowerCase(c.description), searchLower)

\* Mutant: the offset is off by one page
pageStart_offByOne(filters) ==
    IF Truthy(filters, "page", 0)
    THEN filters.page *
            (IF Truthy(filters, "limit", 0) THEN filters.limit ELSE DefaultLimit)
    ELSE 0

\* Line 283: filters?.page ? (filters.page - 1) * (filters.limit || 10) : 0
pageStart(filters) ==
    IF Truthy(filters, "page", 0)
    THEN (filters.page - 1) *
            (IF Truthy(filters, "limit", 0) THEN filters.limit ELSE DefaultLimit)
    ELSE 0

\* Mutant: a page is twice as long when no limit is given
pageEnd_twenty(filters) ==
    pageStart(filters) +
        (IF Truthy(filters, "limit", 0) THEN filters.limit ELSE 2 * DefaultLimit)

\* Line 284: start + (filters?.limit || 10)
pageEnd(filters) ==
    pageStart(filters) +
        (IF Truthy(filters, "limit", 0) THEN filters.limit ELSE DefaultLimit)

\* Lines 266-289: the catch block of campaignService.getCampaigns
getCampaignsFallback(filters, ls) ==
    LET allCampaigns == getCampaigns(ls)
        StatusIs(c) == c.status = filters.status
        byStatus ==
            IF Truthy(filters, "status", "")
            THEN filter(allCampaigns, StatusIs) ELSE allCampaigns
        Matches(c) == matchesSearch(c, toLowerCase(filters.search))
        filteredCampaigns ==
            IF Truthy(filters, "search", <<>>)
            THEN filter(byStatus, Matches) ELSE byStatus
    IN  Done(ls,
             Return([campaigns |-> slice(filteredCampaigns, pageStart(filters),
                                         pageEnd(filters)),
                     total |-> Len(filteredCampaigns)]),
             <<"log: API not available, using localStorage">>)

\* Mutant: the list request has no catch block
campaignService_getCampaigns_rethrow(filters, reply, ls) ==
    IF reply.status = "resolved"
    THEN Done(ls, Return(reply.data), <<>>)
    ELSE Done(ls, Throw(reply.why), <<>>)

\* Lines 258-291
campaignService_getCampaigns(filters, reply, ls) ==
    IF reply.status = "resolved"
    THEN Done(ls, Return(reply.data), <<>>)
    ELSE getCampaignsFallback(filters, ls)

\* Mutant: a 404 answer is raised as not found without looking locally
campaignService_getCampaign_404(id, reply, ls) ==
    IF reply.status = "resolved"
    THEN Done(ls, Return(reply.data), <<>>)
    ELSE LET campaign == getCampaignById(id, ls)
         IN  IF campaign = Null \/ reply.why = "HTTP 404"
             THEN Done(ls, Throw("Campaign not found"), <<>>)
             ELSE Done(ls, Return(campaign), <<>>)

\* Mutant: a campaign the backend returns is also kept in the local store
campaignService_getCampaign_caches(id, reply, ls) ==
    IF reply.status = "resolved"
    THEN Done([ls EXCEPT ![CAMPAIGNS_KEY] =
                  stringify(Append(getCampaigns(ls), reply.data))],
              Return(reply.data), <<>>)
    ELSE LET campaign == getCampaignById(id, ls)
         IN  IF campaign = Null
             THEN Done(ls, Throw("Campaign not found"), <<>>)
             ELSE Done(ls, Return(campaign), <<>>)

\* Lines 293-305
campaignService_getCampaign(id, reply, ls) ==
    IF reply.status = "resolved"
    THEN Done(ls, Return(reply.data), <<>>)
    ELSE LET campaign == getCampaignById(id, ls)
         IN  IF campaign = Null
             THEN Done(ls, Throw("Campaign not found"), <<>>)
             ELSE Done(ls, Return(campaign), <<>>)

\* Mutant: a created campaign is also cached locally when the backend answers
campaignService_createCampaign_writeThrough(data, reply, ls, q, t) ==
    IF reply.status = "resolved"
    THEN Done(addCampaign(data, ls, q, t).ls, Return(reply.data), <<>>)
    ELSE LET added == addCampaign(data, ls, q, t)
         IN  Done(added.ls, Return(added.ret),
                  <<"log: API not available, saving to localStorage">>
                      \o added.logs)

\* Lines 307-316
campaignService_createCampaign(data, reply, ls, q, t) ==
    IF reply.status = "resolved"
    THEN Done(ls, Return(reply.data), <<>>)
    ELSE LET added == addCampaign(data, ls, q, t)
         IN  Done(added.ls, Return(added.ret),
                  <<"log: API not available, saving to localStorage">>
                      \o added.logs)

\* Lines 318-330
campaignService_updateCampaign(id, data, reply, ls, q, t) ==
    IF reply.status = "resolved"
    THEN Done(ls, Return(reply.data), <<>>)
    ELSE LET updated == updateCampaign(id, data, ls, q, t)
         IN  IF updated.ret = Null
             THEN Done(updated.ls, Throw("Campaign not found"), updated.logs)
             ELSE Done(updated.ls, Return(updated.ret), updated.logs)

\* Lines 332-342; the method returns nothing
campaignService_deleteCampaign(id, reply, ls, q) ==
    IF reply.status = "resolved"
    THEN Done(ls, Return(Undefined), <<>>)
    ELSE LET deleted == deleteCampaign(id, ls, q)
         IN  IF ~deleted.ret
             THEN Done(deleted.ls, Throw("Campaign not found"), deleted.logs)
             ELSE Done(deleted.ls, Return(Undefined), deleted.logs)

\* Lines 344-361
campaignService_getCampaignStats(id, reply, ls) ==
    IF reply.status = "resolved"
    THEN Done(ls, Return(reply.data), <<>>)
    ELSE LET campaign == getCampaignById(id, ls)
             flat(key) == IF Has(campaign, key) THEN campaign[key] ELSE 0
         IN  IF campaign = Null
             THEN Done(ls, Throw("Campaign not found"), <<>>)
             ELSE IF Has(campaign, "stats")
             THEN Done(ls, Return(campaign.stats), <<>>)
             ELSE Done(ls,
                       Return([views |-> flat("views_count"),
                               clicks |-> flat("clicks_count"),
                               conversions |-> flat("conversions_count"),
                               spend |-> flat("budget")]),
                       <<>>)

\* Mutant: the catch block rethrows the transport failure
campaignService_getDashboardStats_rethrow(reply, ls, rnd) ==
    IF reply.status = "resolved"
    THEN Done(ls, Return(reply.data), <<>>)
    ELSE Done(ls, Throw(reply.why), <<>>)

\* Lines 363-386
campaignService_getDashboardStats(reply, ls, rnd) ==
    IF reply.status = "resolved"
    THEN Done(ls, Return(reply.data), <<>>)
    ELSE LET stats == calculateRealStats(ls, rnd)
         IN  Done(ls,
                  Return([total_campaigns |-> stats.totalCampaigns.value,
                          active_campaigns |-> stats.activeCampaigns.value,
                          total_views |-> stats.totalViews.value,
                          total_clicks |-> stats.totalClicks.value,
                          total_conversions |-> stats.conversions.value,
                          total_spent |-> stats.totalSpend.value]),
                  <<>>)

\* --------------------------------------------------------------- inputs
\* What the pages pass in: CreateCampaign.tsx submits the form fields
\* (name, description, channel, priority, budget, start_date, end_date),
\* CampaignEdit.tsx a partial set of them.
CreateInputs ==
    {[name |-> <<"V", "E">>, budget |-> 5, channel |-> "display",
      start_date |-> "2024-11-01", end_date |-> "2024-11-30"],
     [name |-> <<"a">>, description |-> <<"v", "e">>, budget |-> 7,
      channel |-> "video", priority |-> "high",
      start_date |-> "2024-11-01", end_date |-> "2024-11-30"]}

UpdateInputs == {[budget |-> 99], [status |-> "active"]}

FilterInputs ==
    {Undefined, EmptyObj,
     [status |-> "active"], [status |-> "draft"], [status |-> ""],
     [search |-> <<"V", "e">>], [search |-> <<"A">>],
     [status |-> "draft", search |-> <<"v", "E">>],
     [page |-> 1, limit |-> 1], [page |-> 2, limit |-> 1],
     [page |-> 2, limit |-> 2],
     [page |-> 2], [limit |-> 1], [page |-> 0, limit |-> 1],
     [search |-> <<"v", "e">>, page |-> 2, limit |-> 1]}

\* The ids a caller may ask for: every id the clock can have produced
Ids == {ToString(t) : t \in 0..MaxClock}

\* Math.random() draws, in tenths, for the six percentage changes
RandomDraws == {[i \in 1..6 |-> r] : r \in {0, 9}}

\* n successive clock readings inside one synchronous call: they never go
\* back; on a machine where a call can straddle a millisecond boundary the
\* clock may tick once while the call runs
Readings(n) ==
    {t \in [1..n -> now..(IF jitter THEN Min(now + 1, MaxClock) ELSE now)] :
        \A i \in 1..(n - 1) : t[i] <= t[i + 1]}

\* ------------------------------------------------------------ requests
\* Mutant: once campaigns are stored locally, a create uploads them with its
\* own fields
request_upload(op, args, ls) ==
    CASE op = "getCampaigns" ->
            [method |-> "GET", url |-> <<"/campaigns">>, params |-> args[1]]
      [] op = "getCampaign" ->
            [method |-> "GET", url |-> <<"/campaigns", args[1]>>]
      [] op = "createCampaign" ->
            [method |-> "POST", url |-> <<"/campaigns">>,
             body |-> IF getCampaigns(ls) = <<>> THEN args[1]
                      ELSE [data |-> args[1], offline |-> getCampaigns(ls)]]
      [] op = "updateCampaign" ->
            [method |-> "PUT", url |-> <<"/campaigns", args[1]>>, body |-> args[2]]
      [] op = "deleteCampaign" ->
            [method |-> "DELETE", url |-> <<"/campaigns", args[1]>>]
      [] op = "getCampaignStats" ->
            [method |-> "GET", url |-> <<"/campaigns", args[1], "stats">>]
      [] op = "getDashboardStats" ->
            [method |-> "GET", url |-> <<"/dashboard", "stats">>]
      [] OTHER -> [method |-> "none"]

\* What each method sends to the backend (lines 261, 295, 309, 320, 334, 346,
\* 372), the page's localStorage being ls when the method is called
request(op, args, ls) ==
    CASE op = "getCampaigns" ->
            [method |-> "GET", url |-> <<"/campaigns">>, params |-> args[1]]
      [] op = "getCampaign" ->
            [method |-> "GET", url |-> <<"/campaigns", args[1]>>]
      [] op = "createCampaign" ->
            [method |-> "POST", url |-> <<"/campaigns">>, body |-> args[1]]
      [] op = "updateCampaign" ->
            [method |-> "PUT", url |-> <<"/campaigns", args[1]>>, body |-> args[2]]
      [] op = "deleteCampaign" ->
            [method |-> "DELETE", url |-> <<"/campaigns", args[1]>>]
      [] op = "getCampaignStats" ->
            [method |-> "GET", url |-> <<"/campaigns", args[1], "stats">>]
      [] op = "getDashboardStats" ->
            [method |-> "GET", url |-> <<"/dashboard", "stats">>]
      [] OTHER -> [method |-> "none"]

\* ---------------------------------------------------------- state machine
\* A call is in flight from the moment its request is sent until the promise
\* of the request settles; at most MaxPending calls are in flight at a time.
\* The actions below that send the request and handle its answer in one step
\* are the calls that no other call overlaps.
Slots == 1..MaxPending
Idle == [op |-> "idle"]
NoCalls == [s \in Slots |-> Idle]

Completed(op, args, reply, done) ==
    [op |-> op, args |-> args, request |-> request(op, args, localStorage),
     reply |-> reply, outcome |-> done.outcome,
     logs |-> done.logs, before |-> localStorage]

\* At page load the campaigns entry is absent, or holds text that JSON.parse
\* rejects (the case the try/catch of getCampaigns is there for).
Init ==
    /\ \E item \in {NoItem, CorruptItem} :
          localStorage = [inmax_campaigns |-> item, inmax_dashboard_config |-> NoItem]
    /\ quota \in 0..MaxCampaigns
    /\ jitter = FALSE
    /\ now = 0
    /\ last = [op |-> "none"]
    /\ pending = NoCalls

\* Time passes between calls
Tick ==
    /\ now < MaxClock
    /\ now' = now + 1
    /\ UNCHANGED <<pending, localStorage, quota, jitter, last>>

GetCampaigns ==
    \E filters \in FilterInputs :
    \E reply \in {Resolved(RemoteList), Rejected("Network Error")} :
        LET done == campaignService_getCampaigns(filters, reply, localStorage)
        IN  /\ localStorage' = done.ls
            /\ last' = Completed("getCampaigns", <<filters>>, reply, done)
            /\ UNCHANGED <<pending, quota, jitter, now>>

GetCampaign ==
    \E id \in Ids :
    \E reply \in {Resolved(RemoteCampaign)} \cup Rejections :
        LET done == campaignService_getCampaign(id, reply, localStorage)
        IN  /\ localStorage' = done.ls
            /\ last' = Completed("getCampaign", <<id>>, reply, done)
            /\ UNCHANGED <<pending, quota, jitter, now>>

CreateCampaign ==
    \E data \in CreateInputs :
    \E reply \in {Resolved(RemoteCampaign), Rejected("Network Error")} :
    \E t \in Readings(5) :
        LET done == campaignService_createCampaign(data, reply, localStorage, quota, t)
        IN  /\ reply.status = "rejected" =>
                Len(getCampaigns(localStorage)) < MaxCampaigns
            /\ reply.status = "resolved" => t[5] = now
            /\ localStorage' = done.ls
            /\ now' = t[5]
            /\ last' = Completed("createCampaign", <<data>>, reply, done)
            /\ UNCHANGED <<pending, quota, jitter>>

UpdateCampaign ==
    \E id \in Ids :
    \E data \in UpdateInputs :
    \E reply \in {Resolved(RemoteCampaign)} \cup Rejections :
    \E t \in Readings(2) :
        LET done == campaignService_updateCampaign(id, data, reply, localStorage, quota, t)
        IN  /\ (reply.status = "resolved" \/ done.outcome.kind = "throw") => t[2] = now
            /\ localStorage' = done.ls
            /\ now' = t[2]
            /\ last' = Completed("updateCampaign", <<id, data>>, reply, done)
            /\ UNCHANGED <<pending, quota, jitter>>

DeleteCampaign ==
    \E id \in Ids :
    \E reply \in {Resolved(Undefined)} \cup Rejections :
        LET done == campaignService_deleteCampaign(id, reply, localStorage, quota)
        IN  /\ localStorage' = done.ls
            /\ last' = Completed("deleteCampaign", <<id>>, reply, done)
            /\ UNCHANGED <<pending, quota, jitter, now>>

GetCampaignStats ==
    \E id \in Ids :
    \E reply \in {Resolved(RemoteStats)} \cup Rejections :
        LET done == campaignService_getCampaignStats(id, reply, localStorage)
        IN  /\ localStorage' = done.ls
            /\ last' = Completed("getCampaignStats", <<id>>, reply, done)
            /\ UNCHANGED <<pending, quota, jitter, now>>

GetDashboardStats ==
    \E reply \in {Resolved(RemoteDashboardStats), Rejected("Network Error")} :
    \E rnd \in RandomDraws :
        LET done == campaignService_getDashboardStats(reply, localStorage, rnd)
        IN  /\ localStorage' = done.ls
            /\ last' = Completed("getDashboardStats", <<>>, reply, done)
            /\ UNCHANGED <<pending, quota, jitter, now>>

Next ==
    \/ Tick
    \/ GetCampaigns
    \/ GetCampaign
    \/ CreateCampaign
    \/ UpdateCampaign
    \/ DeleteCampaign
    \/ GetCampaignStats
    \/ GetDashboardStats

Spec == Init /\ [][Next]_vars

\* ------------------------------------------- a store from earlier sessions
\* localStorage outlives the page.  Campaigns it holds from earlier sessions
\* carry their counters in the flat shape (views_count, ...: what the API
\* returns and earlier builds of the client stored), in the nested shape
\* (stats.views, ...), in both, or not at all; a local create writes both
\* shapes, zeroed.  Where a record has both shapes they agree.
CounterValues ==
    {[views |-> 10, clicks |-> 1, conversions |-> 0],
     [views |-> 20, clicks |-> 2, conversions |-> 1]}

BareCampaign(n) ==
    [id |-> ToString(n.views), name |-> <<"a">>, budget |-> 5,
     status |-> "active", priority |-> "medium"]

FlatShape(n) ==
    Spread(BareCampaign(n),
           [views_count |-> n.views, clicks_count |-> n.clicks,
            conversions_count |-> n.conversions])
NestedShape(n) ==
    Spread(BareCampaign(n),
           [stats |-> [views |-> n.views, clicks |-> n.clicks,
                       conversions |-> n.conversions, spend |-> 0]])
BothShapes(n) == Spread(FlatShape(n), NestedShape(n))

StoredShapes ==
    {FlatShape(n) : n \in CounterValues}
        \cup {NestedShape(n) : n \in CounterValues}
        \cup {BothShapes(n) : n \in CounterValues}
        \cup {BareCampaign([views |-> 0])}
        \cup {newCampaign(d, [i \in 1..5 |-> 0]) : d \in CreateInputs}

InitStats ==
    /\ \E n \in 0..MaxCampaigns :
       \E campaigns \in [1..n -> StoredShapes] :
           localStorage = [inmax_campaigns |-> stringify(campaigns),
                           inmax_dashboard_config |-> NoItem]
    /\ quota = MaxCampaigns
    /\ jitter = FALSE
    /\ now = 0
    /\ last = [op |-> "none"]
    /\ pending = NoCalls

\* The dashboard statistics over a store from earlier sessions
SpecStats == InitStats /\ [][GetDashboardStats]_vars

\* ------------------------------------------------- the repository's create
\* What addCampaign can be handed: the form's fields, and an object that
\* also carries a status, a priority, target_locations and media_files
\* (the spread on line 123 copies whatever the argument holds).
AddInputs ==
    CreateInputs \cup
    {[name |-> <<"a">>, budget |-> 5, channel |-> "display", status |-> "active",
      priority |-> "low", target_locations |-> <<"MX">>, media_files |-> <<"f">>,
      start_date |-> "2024-11-01", end_date |-> "2024-11-30"]}

\* The page loads on a machine whose clock may or may not tick while a
\* synchronous call runs
InitCreate ==
    /\ \E item \in {NoItem, CorruptItem} :
          localStorage = [inmax_campaigns |-> item, inmax_dashboard_config |-> NoItem]
    /\ quota \in 0..MaxCampaigns
    /\ jitter \in BOOLEAN
    /\ now = 0
    /\ last = [op |-> "none"]
    /\ pending = NoCalls

\* A direct call of the repository's addCampaign; no remote request is made
NoRequest == [status |-> "none"]
AddCampaign ==
    \E campaignData \in AddInputs :
    \E t \in Readings(5) :
        LET added == addCampaign(campaignData, localStorage, quota, t)
        IN  /\ Len(getCampaigns(localStorage)) < MaxCampaigns
            /\ localStorage' = added.ls
            /\ now' = t[5]
            /\ last' = Completed("addCampaign", <<campaignData>>, NoRequest,
                                 Done(added.ls, Return(added.ret), added.logs))
            /\ UNCHANGED <<pending, quota, jitter>>

\* What the repository's updateCampaign can be handed: the edit form's
\* fields, and an object that also carries an id and a created_at (the
\* spread on line 157 copies whatever the argument holds).
StoredUpdates ==
    UpdateInputs \cup
    {[id |-> ToString(MaxClock), created_at |-> toISOString(MaxClock)]}

\* Direct calls of the repository's updateCampaign and deleteCampaign
StoredUpdate ==
    \E id \in Ids :
    \E updates \in StoredUpdates :
    \E t \in Readings(2) :
        LET updated == updateCampaign(id, updates, localStorage, quota, t)
        IN  /\ updated.ret = Null => t[2] = now
            /\ localStorage' = updated.ls
            /\ now' = t[2]
            /\ last' = Completed("updateCampaign", <<id, updates>>, NoRequest,
                                 Done(updated.ls, Return(updated.ret), updated.logs))
            /\ UNCHANGED <<pending, quota, jitter>>

StoredDelete ==
    \E id \in Ids :
        LET deleted == deleteCampaign(id, localStorage, quota)
        IN  /\ localStorage' = deleted.ls
            /\ last' = Completed("deleteCampaign", <<id>>, NoRequest,
                                 Done(deleted.ls, Return(deleted.ret), deleted.logs))
            /\ UNCHANGED <<pending, quota, jitter, now>>

\* addCampaign called directly, on either kind of machine
NextCreate ==
    \/ Tick
    \/ AddCampaign

SpecCreate == InitCreate /\ [][NextCreate]_vars

\* The repository called directly, on a machine whose clock does not tick
\* while a synchronous call runs
InitRepository == InitCreate /\ jitter = FALSE

NextRepository ==
    \/ Tick
    \/ AddCampaign
    \/ StoredUpdate
    \/ StoredDelete

SpecRepository == InitRepository /\ [][NextRepository]_vars

\* ------------------------------------------------- writes that do not fit
\* Other data of the origin takes up storage: less room is left for the
\* campaigns entry, possibly less than it occupies now
StorageFills ==
    /\ \E q \in 0..(quota - 1) : quota' = q
    /\ UNCHANGED <<pending, localStorage, jitter, now, last>>

\* The service's three writing operations while the room left for the
\* campaigns entry shrinks
NextQuota ==
    \/ Tick
    \/ CreateCampaign
    \/ UpdateCampaign
    \/ DeleteCampaign
    \/ StorageFills

SpecQuota == Init /\ [][NextQuota]_vars

\* ------------------------------------- configuration next to the campaigns
\* The configurations a settings panel saves
ConfigInputs ==
    {defaultDashboardConfig,
     [defaultDashboardConfig EXCEPT !.layout = "list"],
     [defaultDashboardConfig EXCEPT !.widgets.totalViews = FALSE,
                                    !.charts.spendChart = FALSE]}

\* At page load either entry is absent or holds text that JSON.parse rejects
InitConfig ==
    /\ \E campaigns \in {NoItem, CorruptItem} :
       \E config \in {NoItem, CorruptItem} :
          localStorage = [inmax_campaigns |-> campaigns,
                          inmax_dashboard_config |-> config]
    /\ quota \in 0..MaxCampaigns
    /\ jitter = FALSE
    /\ now = 0
    /\ last = [op |-> "none"]
    /\ pending = NoCalls

GetDashboardConfig ==
    /\ last' = Completed("getDashboardConfig", <<>>, NoRequest,
                         Done(localStorage, Return(getDashboardConfig(localStorage)), <<>>))
    /\ UNCHANGED <<pending, localStorage, quota, jitter, now>>

SaveDashboardConfig ==
    \E config \in ConfigInputs :
        LET saved == saveDashboardConfig(config, localStorage, quota)
        IN  /\ localStorage' = saved.ls
            /\ last' = Completed("saveDashboardConfig", <<config>>, NoRequest,
                                 Done(saved.ls, Return(Undefined), saved.logs))
            /\ UNCHANGED <<pending, quota, jitter, now>>

\* The configuration calls between the service's writing operations
NextConfig ==
    \/ GetDashboardConfig
    \/ SaveDashboardConfig
    \/ CreateCampaign
    \/ UpdateCampaign
    \/ DeleteCampaign

SpecConfig == InitConfig /\ [][NextConfig]_vars

\* ------------------------------------------------------- reading the store
\* Direct calls of the repository's getCampaigns and getCampaignById
GetStoredCampaigns ==
    /\ last' = Completed("repository.getCampaigns", <<>>, NoRequest,
                         Done(localStorage, Return(getCampaigns(localStorage)), <<>>))
    /\ UNCHANGED <<pending, localStorage, quota, jitter, now>>

GetCampaignById ==
    \E id \in Ids :
        /\ last' = Completed("getCampaignById", <<id>>, NoRequest,
                             Done(localStorage,
                                  Return(getCampaignById(id, localStorage)), <<>>))
        /\ UNCHANGED <<pending, localStorage, quota, jitter, now>>

\* Either entry is absent or unreadable when the page loads; every write
\* has room; the calls all fall within one millisecond
InitReads ==
    /\ InitConfig
    /\ quota = MaxCampaigns

\* Every reading operation of the service and of the repository, between
\* the operations that write
NextReads ==
    \/ GetCampaigns
    \/ GetCampaign
    \/ GetCampaignStats
    \/ GetDashboardStats
    \/ GetStoredCampaigns
    \/ GetCampaignById
    \/ GetDashboardConfig
    \/ SaveDashboardConfig
    \/ CreateCampaign
    \/ UpdateCampaign
    \/ DeleteCampaign

SpecReads == InitReads /\ [][NextReads]_vars

\* ------------------------------------------------------------------ paging
\* The filters a list page passes: those of FilterInputs and pages of a
\* longer list
PageInputs ==
    FilterInputs \cup
    {[page |-> 1], [page |-> 3], [limit |-> 0], [limit |-> 5], [limit |-> 11],
     [page |-> 2, limit |-> 5], [page |-> 2, limit |-> 0],
     [status |-> "active", page |-> 2, limit |-> 5],
     [status |-> "draft", limit |-> 0]}

\* The store holds the campaigns of earlier sessions, one created in each
\* millisecond; the first few were activated as soon as they were created
InitPages ==
    /\ \E n \in 0..MaxStored :
       \E k \in 0..n :
       \E data \in CreateInputs :
          localStorage =
             [inmax_campaigns |->
                 stringify([i \in 1..n |->
                     Spread(newCampaign(data, [r \in 1..5 |-> i]),
                            IF i <= k THEN [status |-> "active"] ELSE EmptyObj)]),
              inmax_dashboard_config |-> NoItem]
    /\ quota = MaxStored
    /\ jitter = FALSE
    /\ now = MaxStored
    /\ last = [op |-> "none"]
    /\ pending = NoCalls

ListCampaigns ==
    \E filters \in PageInputs :
    \E reply \in {Resolved(RemoteList), Rejected("Network Error")} :
        LET done == campaignService_getCampaigns(filters, reply, localStorage)
        IN  /\ localStorage' = done.ls
            /\ last' = Completed("getCampaigns", <<filters>>, reply, done)
            /\ UNCHANGED <<pending, quota, jitter, now>>

SpecPages == InitPages /\ [][ListCampaigns]_vars

\* ------------------------------------------------------ overlapping calls
\* The writing operations a page starts without waiting for one another.
\* Besides the edit form's updates there is a second budget, so that two
\* updates can give the same field different values.
ConcurrentUpdates == UpdateInputs \cup {[budget |-> 50]}

Calls ==
    {[op |-> "createCampaign", args |-> <<data>>] : data \in CreateInputs}
        \cup {[op |-> "updateCampaign", args |-> <<id, data>>] :
                 id \in Ids, data \in ConcurrentUpdates}
        \cup {[op |-> "deleteCampaign", args |-> <<id>>] : id \in Ids}

\* The rest of the method once the awaited request has settled: it runs to
\* completion, no other code of the page runs in between
Continue(call, reply, ls, q, t) ==
    CASE call.op = "createCampaign" ->
            campaignService_createCampaign(call.args[1], reply, ls, q, t)
      [] call.op = "updateCampaign" ->
            campaignService_updateCampaign(call.args[1], call.args[2], reply, ls, q,
                                           <<t[1], t[2]>>)
      [] call.op = "deleteCampaign" ->
            campaignService_deleteCampaign(call.args[1], reply, ls, q)

\* The method is called: its request goes out and the method awaits it.
\* The page starts its calls in one burst, before the first of them settles.
BeginCall ==
    \E s \in Slots :
    \E call \in Calls :
        /\ last.op = "none"
        /\ pending[s] = Idle
        /\ \A x \in Slots : x < s => pending[x] # Idle
        /\ pending' = [pending EXCEPT ![s] = Spread(call, [earlier |-> <<>>])]
        /\ UNCHANGED <<localStorage, quota, jitter, now, last>>

\* The request of a call in flight is rejected and the method finishes on
\* its fallback path.  The calls still in flight take note of what
\* completed while they waited.
SettleCall ==
    \E s \in Slots :
    \E t \in Readings(5) :
        LET call == pending[s]
            reply == Rejected("Network Error")
            done == Continue(call, reply, localStorage, quota, t)
            completed == [op |-> call.op, args |-> call.args,
                          outcome |-> done.outcome]
        IN  /\ call # Idle
            /\ localStorage' = done.ls
            /\ now' = t[5]
            /\ last' = Spread(Completed(call.op, call.args, reply, done),
                              [earlier |-> call.earlier])
            /\ pending' =
                  [x \in Slots |->
                      IF x = s \/ pending[x] = Idle THEN Idle
                      ELSE [pending[x] EXCEPT !.earlier = Append(@, completed)]]
            /\ UNCHANGED <<quota, jitter>>

\* The page is offline.  Two campaigns were created locally, one in each of
\* the last two milliseconds; there is room for every campaign the calls
\* create; no call is in flight.
InitConcurrent ==
    /\ \E first, second \in CreateInputs :
          /\ first # second
          /\ localStorage =
                [inmax_campaigns |->
                    stringify(<<newCampaign(first, [i \in 1..5 |-> MaxClock - 1]),
                                newCampaign(second, [i \in 1..5 |-> MaxClock])>>),
                 inmax_dashboard_config |-> NoItem]
    /\ quota = MaxCampaigns + MaxPending
    /\ jitter = FALSE
    /\ now = MaxClock
    /\ last = [op |-> "none"]
    /\ pending = NoCalls

NextConcurrent ==
    \/ BeginCall
    \/ SettleCall

SpecConcurrent == InitConcurrent /\ [][NextConcurrent]_vars

\* ------------------------------------------------------------ properties
\* The stored campaigns now, and when the last call started
Store == getCampaigns(localStorage)
StoreBefore == getCampaigns(last.before)

\* The last call's remote request was rejected / was answered
FellBack(op) == last.op = op /\ last.reply.status = "rejected"
Returned == last.outcome.kind = "return"

IdIn(id, campaigns) == \E i \in 1..Len(campaigns) : campaigns[i].id = id
InSeq(c, campaigns) == \E i \in 1..Len(campaigns) : campaigns[i] = c

\* The fields a successful remote answer carries (API contract)
CampaignFields ==
    {"id", "name", "budget", "channel", "start_date", "end_date", "user_id",
     "status", "priority", "target_locations", "media_files", "created_at",
     "updated_at", "views_count", "clicks_count", "conversions_count"}
ListFields == {"campaigns", "total"}
StatsFields == {"views", "clicks", "conversions", "spend"}
DashboardFields ==
    {"total_campaigns", "active_campaigns", "total_views", "total_clicks",
     "total_conversions", "total_spent"}

C2_RemoteSuccessLeavesStore ==
    /\ (last.op # "none" /\ last.reply.status = "resolved") =>
          /\ last.outcome = Return(last.reply.data)
          /\ localStorage = last.before
    /\ (last.op # "none" /\ localStorage # last.before) =>
          last.reply.status = "rejected"

\* C2 witness: a create was answered by the backend while the local store
\* held a campaign.
C2_Witness ==
    /\ last.op = "createCampaign" /\ last.reply.status = "resolved"
    /\ Len(Store) = 1

\* C3 (id uniqueness), as claimed: no two stored campaigns share an id.
C3_IdsDistinct ==
    \A i, j \in 1..Len(Store) : i # j => Store[i].id # Store[j].id

\* The properties in which two records differ
Changed(old, new) ==
    {k \in DOMAIN old \cup DOMAIN new :
        ~(k \in DOMAIN old /\ k \in DOMAIN new /\ old[k] = new[k])}

\* A local update of the campaign at position i changed, in the whole
\* store, nothing but the properties the call provided and those in `also`
OnlyChanged(i, also) ==
    /\ Len(Store) = Len(StoreBefore)
    /\ StoreBefore[i].id = last.args[1]
    /\ Changed(StoreBefore[i], Store[i]) \subseteq (DOMAIN last.args[2] \cup also)
    /\ \A j \in 1..Len(Store) : j # i => Store[j] = StoreBefore[j]

CasePairs == {{"v", "V"}, {"e", "E"}, {"a", "A"}}
SameLetter(a, b) == a = b \/ {a, b} \in CasePairs
ContainsIgnoringCase(text, needle) ==
    \E i \in 0..(Len(text) - Len(needle)) :
        \A j \in 1..Len(needle) : SameLetter(text[i + j], needle[j])

\* A filter is given when the caller set it to something else than the
\* empty value the list page uses for "no filter"
FilterGiven(filters, key, empty) ==
    /\ filters # Undefined
    /\ key \in DOMAIN filters
    /\ filters[key] # empty

Satisfies(c, filters) ==
    /\ FilterGiven(filters, "status", "") => c.status = filters.status
    /\ FilterGiven(filters, "search", <<>>) =>
          \/ ContainsIgnoringCase(c.name, filters.search)
          \/ /\ "description" \in DOMAIN c
             /\ ContainsIgnoringCase(c.description, filters.search)

\* The stored campaigns that satisfy every given filter, in stored order
Expected(filters) == SelectSeq(StoreBefore, LAMBDA c : Satisfies(c, filters))

\* C7 (list filtering on the fallback path): every returned campaign
\* satisfies every given filter (status equal, search text a case-insensitive
\* substring of the name or the description); total counts exactly the stored
\* campaigns that satisfy them; and without page and limit (the default page
\* holds them all) the result is exactly those campaigns in stored order.
C7_ListFiltering ==
    FellBack("getCampaigns") =>
        LET filters == last.args[1]
            v == last.outcome.value
        IN  /\ Returned
            /\ v.total = Len(Expected(filters))
            /\ \A i \in 1..Len(v.campaigns) : Satisfies(v.campaigns[i], filters)
            /\ (~FilterGiven(filters, "page", 0) /\ ~FilterGiven(filters, "limit", 0)) =>
                  v.campaigns = Expected(filters)

\* C7 witness: status and search (in another case than the stored text)
\* together select one of two stored campaigns.
C7_Witness ==
    /\ FellBack("getCampaigns")
    /\ last.args[1] = [status |-> "draft", search |-> <<"v", "E">>]
    /\ Len(StoreBefore) = 2
    /\ last.outcome.value.total = 1
    /\ Len(last.outcome.value.campaigns) = 1

\* C8 (pagination on the fallback path): with page p >= 1 and limit L >= 1
\* the result holds the filtered campaigns at positions (p-1)*L+1 .. p*L, or
\* as many of them as exist, and total is the filtered count.
C8_Pagination ==
    (/\ FellBack("getCampaigns")
     /\ FilterGiven(last.args[1], "page", 0)
     /\ FilterGiven(last.args[1], "limit", 0)) =>
        LET p == last.args[1].page
            L == last.args[1].limit
            all == Expected(last.args[1])
            from == ((p - 1) * L) + 1
            to == Min(p * L, Len(all))
            v == last.outcome.value
        IN  /\ v.campaigns = [i \in 1..Max(0, (to - from) + 1) |-> all[(from + i) - 1]]
            /\ v.total = Len(all)

\* C8 witness: page 2 with limit 1 of two stored campaigns is the second one.
C8_Witness ==
    /\ FellBack("getCampaigns")
    /\ last.args[1] = [page |-> 2, limit |-> 1]
    /\ Len(StoreBefore) = 2
    /\ last.outcome.value.campaigns = <<StoreBefore[2]>>
    /\ last.outcome.value.total = 2

\* One campaign's metric as the data model defines it: the nested value if
\* present, else the flat counter, else zero
Metric(c, nested, flat) ==
    IF "stats" \in DOMAIN c /\ nested \in DOMAIN c.stats THEN c.stats[nested]
    ELSE IF flat \in DOMAIN c THEN c[flat]
    ELSE 0

RECURSIVE MetricSum(_, _, _, _)
MetricSum(campaigns, n, nested, flat) ==
    IF n = 0 THEN 0
    ELSE Metric(campaigns[n], nested, flat) + MetricSum(campaigns, n - 1, nested, flat)

\* The same campaign with its counters moved to the flat shape alone, and
\* to the nested shape alone
FlatKeys == {"views_count", "clicks_count", "conversions_count"}
AsFlat(c) ==
    [k \in (DOMAIN c \ {"stats"}) \cup FlatKeys |->
        CASE k = "views_count" -> Metric(c, "views", "views_count")
          [] k = "clicks_count" -> Metric(c, "clicks", "clicks_count")
          [] k = "conversions_count" -> Metric(c, "conversions", "conversions_count")
          [] OTHER -> c[k]]
AsNested(c) ==
    [k \in (DOMAIN c \ FlatKeys) \cup {"stats"} |->
        IF k = "stats"
        THEN [views |-> Metric(c, "views", "views_count"),
              clicks |-> Metric(c, "clicks", "clicks_count"),
              conversions |-> Metric(c, "conversions", "conversions_count"),
              spend |-> 0]
        ELSE c[k]]

TotalCampaigns(ls, reply, rnd) ==
    campaignService_getDashboardStats(reply, ls, rnd).outcome.value.total_campaigns

\* localStorage rejected the write of the last call (saveCampaigns logged it)
WriteFailed == \E i \in 1..Len(last.logs) : last.logs[i] = "error: Error saving campaigns:"

\* C9 (create-then-get while offline): after a createCampaign whose remote
\* call failed, the returned record is in the local store with status draft,
\* a generated id and zeroed counters, and getCampaign(id) with the remote
\* still failing returns that same record.
C9_CreateThenGet ==
    FellBack("createCampaign") =>
        LET created == last.outcome.value
        IN  /\ Returned
            /\ created.status = "draft"
            /\ created.id \in Ids
            /\ created.views_count = 0
            /\ created.clicks_count = 0
            /\ created.conversions_count = 0
            /\ created.stats = [views |-> 0, clicks |-> 0, conversions |-> 0, spend |-> 0]
            /\ InSeq(created, Store)
            /\ \A reply \in Rejections :
                  campaignService_getCampaign(created.id, reply, localStorage).outcome
                      = Return(created)

\* C10 as stated: after a createCampaign that fell back, getDashboardStats
\* (remote still failing) reports total_campaigns exactly one higher than
\* before the create, and on the fallback path total_campaigns always equals
\* the number of records in the local store.
C10_OneHigherAfterCreate ==
    \A reply \in Rejections : \A rnd \in RandomDraws :
        /\ TotalCampaigns(localStorage, reply, rnd) = Len(Store)
        /\ FellBack("createCampaign") =>
              TotalCampaigns(localStorage, reply, rnd)
                  = TotalCampaigns(last.before, reply, rnd) + 1

\* C10 (amended): on the fallback path total_campaigns always equals the
\* number of records in the local store; after a createCampaign that fell
\* back it is one higher than before the create when localStorage took the
\* write, and unchanged when the write was rejected (and logged).
C10_TotalCampaigns ==
    /\ \A reply \in Rejections : \A rnd \in RandomDraws :
          /\ TotalCampaigns(localStorage, reply, rnd) = Len(Store)
          /\ FellBack("createCampaign") =>
                TotalCampaigns(localStorage, reply, rnd)
                    = TotalCampaigns(last.before, reply, rnd)
                          + (IF WriteFailed THEN 0 ELSE 1)
    /\ FellBack("getDashboardStats") =>
          last.outcome.value.total_campaigns = Len(StoreBefore)

\* C10 witness: a create fell back onto a store of one campaign and was
\* written; the dashboard then counts two campaigns.
C10_Witness ==
    /\ FellBack("createCampaign")
    /\ ~WriteFailed
    /\ Len(StoreBefore) = 1
    /\ Len(Store) = 2
    /\ \A reply \in Rejections : \A rnd \in RandomDraws :
          TotalCampaigns(localStorage, reply, rnd) = 2

\* The failures a remote call can end with
TransportFailures == {reply.why : reply \in Rejections}

C12_Remote404IsNotFound ==
    (/\ last.op \in {"getCampaign", "updateCampaign", "deleteCampaign"}
     /\ last.reply = Rejected("HTTP 404")) =>
        last.outcome = Throw("Campaign not found")

\* The diagnostic entries the catch blocks write with console.log
FallbackLogEntries ==
    {"log: API not available, using localStorage",
     "log: API not available, saving to localStorage"}

\* C13 (every fallback is logged), as claimed: a call of any of the seven
\* operations whose remote request was rejected has written a diagnostic
\* entry, and wrote it before anything the local operation logged.
C13_EveryFallbackLogs ==
    (last.op # "none" /\ last.reply.status = "rejected") =>
        /\ last.logs # <<>>
        /\ Head(last.logs) \in FallbackLogEntries

\* C14 (an update or delete of a missing id changes nothing): in every
\* state, for every id the store has no record of, the repository's
\* updateCampaign returns null and its deleteCampaign returns false, both
\* leaving localStorage as it is, and the service's updateCampaign and
\* deleteCampaign, their remote call rejected, raise "Campaign not found" and
\* leave localStorage as it is; a completed call shows the same.
C14_MissingIdChangesNothing ==
    /\ \A id \in Ids : ~IdIn(id, Store) =>
          /\ \A updates \in UpdateInputs : \A t \in Readings(2) :
                /\ updateCampaign(id, updates, localStorage, quota, t)
                      = [ls |-> localStorage, ret |-> Null, logs |-> <<>>]
                /\ \A reply \in Rejections :
                      LET done == campaignService_updateCampaign(
                                      id, updates, reply, localStorage, quota, t)
                      IN  /\ done.outcome = Throw("Campaign not found")
                          /\ done.ls = localStorage
          /\ deleteCampaign(id, localStorage, quota)
                = [ls |-> localStorage, ret |-> FALSE, logs |-> <<>>]
          /\ \A reply \in Rejections :
                LET done == campaignService_deleteCampaign(id, reply, localStorage, quota)
                IN  /\ done.outcome = Throw("Campaign not found")
                    /\ done.ls = localStorage
    /\ (/\ FellBack("updateCampaign") \/ FellBack("deleteCampaign")
        /\ ~IdIn(last.args[1], StoreBefore)) =>
          /\ last.outcome = Throw("Campaign not found")
          /\ localStorage = last.before

\* C14 witness: an update fell back onto a store that holds a campaign, but
\* none with the id asked for; it raised and the store is as it was.
C14_Witness ==
    /\ FellBack("updateCampaign")
    /\ Len(StoreBefore) = 1
    /\ ~IdIn(last.args[1], StoreBefore)
    /\ last.outcome = Throw("Campaign not found")
    /\ Store = StoreBefore

\* The first record of the sequence that carries the id
FirstWithId(c, id, campaigns) ==
    \E i \in 1..Len(campaigns) :
        /\ campaigns[i] = c
        /\ campaigns[i].id = id
        /\ \A j \in 1..(i - 1) : campaigns[j].id # id

\* C15 (getCampaign fails exactly when neither path has the record): in
\* every state and for every id, getCampaign returns the remote record when
\* the remote call succeeds; when the remote call fails (network error or
\* 404) it returns the stored record of that id if the store holds one, and
\* raises "Campaign not found" only if the store holds none.  It never
\* writes.  A completed call shows the same.
C15_GetCampaign ==
    /\ \A id \in Ids :
          /\ campaignService_getCampaign(id, Resolved(RemoteCampaign), localStorage)
                = Done(localStorage, Return(RemoteCampaign), <<>>)
          /\ \A reply \in Rejections :
                LET done == campaignService_getCampaign(id, reply, localStorage)
                IN  /\ done.ls = localStorage
                    /\ IdIn(id, Store) =>
                          /\ done.outcome.kind = "return"
                          /\ FirstWithId(done.outcome.value, id, Store)
                    /\ ~IdIn(id, Store) =>
                          done.outcome = Throw("Campaign not found")
                    /\ getCampaignById(id, localStorage) = Null <=> ~IdIn(id, Store)
    /\ last.op = "getCampaign" =>
          /\ localStorage = last.before
          /\ last.outcome.kind = "throw" <=>
                (last.reply.status = "rejected" /\ ~IdIn(last.args[1], StoreBefore))
          /\ last.reply.status = "resolved" => last.outcome = Return(last.reply.data)
          /\ (last.reply.status = "rejected" /\ Returned) =>
                FirstWithId(last.outcome.value, last.args[1], StoreBefore)

\* C15 witness: the backend answered 404 for an id the local store holds,
\* and getCampaign returned the stored record.
C15_Witness ==
    /\ last.op = "getCampaign"
    /\ last.reply = Rejected("HTTP 404")
    /\ Returned
    /\ Len(StoreBefore) = 2
    /\ FirstWithId(last.outcome.value, last.args[1], StoreBefore)

\* C16 (local create defaulting), as claimed: the record addCampaign
\* produces has status draft whatever the input carries, the input's
\* priority, target_locations and media_files or medium and the empty
\* sequence when absent, created_at equal to updated_at, both counter shapes
\* zero, and is the last element of the stored sequence.
C16_CreateDefaulting ==
    last.op = "addCampaign" =>
        LET c == last.outcome.value
            d == last.args[1]
        IN  /\ c.status = "draft"
            /\ c.priority = (IF "priority" \in DOMAIN d THEN d.priority ELSE "medium")
            /\ c.target_locations =
                  (IF "target_locations" \in DOMAIN d THEN d.target_locations ELSE <<>>)
            /\ c.media_files =
                  (IF "media_files" \in DOMAIN d THEN d.media_files ELSE <<>>)
            /\ c.created_at = c.updated_at
            /\ c.views_count = 0 /\ c.clicks_count = 0 /\ c.conversions_count = 0
            /\ c.stats = [views |-> 0, clicks |-> 0, conversions |-> 0, spend |-> 0]
            /\ Store = Append(StoreBefore, c)

\* C17 (campaign identity is immutable), as claimed: no repository call
\* changes the id or the created_at of a record that stays in the store.  An
\* update, whatever fields it carries, leaves every stored record's id and
\* created_at as they were; a create leaves the records already stored as
\* they were; a delete leaves the records it keeps as they were.
C17_IdentityImmutable ==
    /\ last.op = "updateCampaign" =>
          /\ Len(Store) = Len(StoreBefore)
          /\ \A i \in 1..Len(StoreBefore) :
                /\ Store[i].id = StoreBefore[i].id
                /\ Store[i].created_at = StoreBefore[i].created_at
    /\ last.op = "addCampaign" =>
          /\ Len(Store) >= Len(StoreBefore)
          /\ \A i \in 1..Len(StoreBefore) : Store[i] = StoreBefore[i]
    /\ last.op = "deleteCampaign" =>
          \A i \in 1..Len(Store) : InSeq(Store[i], StoreBefore)

\* Two runs of an operation settle alike, log alike and leave the same
\* stored campaigns
SameEffect(a, b) ==
    /\ a.outcome = b.outcome
    /\ a.logs = b.logs
    /\ getCampaigns(a.ls) = getCampaigns(b.ls)

\* C18 (the local store read never fails): getCampaigns returns the stored
\* sequence when the entry holds one, and the empty sequence when the entry
\* is absent or is text that JSON.parse rejects; and when the entry is such
\* text, every repository function and every service operation on its
\* fallback path does what it does on an absent entry: same result, same log
\* entries, same stored campaigns afterwards.
C18_ReadNeverFails ==
    LET item == localStorage[CAMPAIGNS_KEY]
        absent == [localStorage EXCEPT ![CAMPAIGNS_KEY] = NoItem]
    IN  /\ item.item = "json" => getCampaigns(localStorage) = item.value
        /\ item.item # "json" => getCampaigns(localStorage) = <<>>
        /\ item = CorruptItem =>
              /\ \A id \in Ids :
                    /\ getCampaignById(id, localStorage) = Null
                    /\ deleteCampaign(id, localStorage, quota).ret = FALSE
                    /\ \A updates \in UpdateInputs : \A t \in Readings(2) :
                          updateCampaign(id, updates, localStorage, quota, t).ret = Null
              /\ \A data \in CreateInputs : \A t \in Readings(5) :
                    LET a == addCampaign(data, localStorage, quota, t)
                        b == addCampaign(data, absent, quota, t)
                    IN  /\ a.ret = b.ret /\ a.logs = b.logs
                        /\ getCampaigns(a.ls) = getCampaigns(b.ls)
              /\ \A rnd \in RandomDraws :
                    calculateRealStats(localStorage, rnd) = calculateRealStats(absent, rnd)
              /\ \A reply \in Rejections :
                    /\ \A filters \in FilterInputs :
                          SameEffect(campaignService_getCampaigns(filters, reply, localStorage),
                                     campaignService_getCampaigns(filters, reply, absent))
                    /\ \A id \in Ids :
                          /\ SameEffect(campaignService_getCampaign(id, reply, localStorage),
                                        campaignService_getCampaign(id, reply, absent))
                          /\ SameEffect(campaignService_deleteCampaign(id, reply, localStorage, quota),
                                        campaignService_deleteCampaign(id, reply, absent, quota))
                          /\ SameEffect(campaignService_getCampaignStats(id, reply, localStorage),
                                        campaignService_getCampaignStats(id, reply, absent))
                          /\ \A updates \in UpdateInputs : \A t \in Readings(2) :
                                SameEffect(
                                    campaignService_updateCampaign(id, updates, reply, localStorage, quota, t),
                                    campaignService_updateCampaign(id, updates, reply, absent, quota, t))
                    /\ \A data \in CreateInputs : \A t \in Readings(5) :
                          SameEffect(
                              campaignService_createCampaign(data, reply, localStorage, quota, t),
                              campaignService_createCampaign(data, reply, absent, quota, t))
                    /\ \A rnd \in RandomDraws :
                          SameEffect(campaignService_getDashboardStats(reply, localStorage, rnd),
                                     campaignService_getDashboardStats(reply, absent, rnd))

\* C18 witness: a create fell back onto a campaigns entry that JSON.parse
\* rejects; the entry now holds the created campaign alone.
C18_Witness ==
    /\ FellBack("createCampaign")
    /\ last.before[CAMPAIGNS_KEY] = CorruptItem
    /\ Returned
    /\ Store = <<last.outcome.value>>

\* C19 (a failing write is absorbed): when localStorage rejects the write
\* of an addCampaign, updateCampaign or deleteCampaign, the call leaves both
\* stored entries exactly as they were and returns what it returns when the
\* write fits (the new record, the merged record, true); and a service
\* create, update or delete that fell back and whose write was rejected
\* returned normally, with the store as it was when the call started.
C19_WriteFailureAbsorbed ==
    /\ \A data \in CreateInputs : \A t \in Readings(5) :
          LET a == addCampaign(data, localStorage, quota, t)
          IN  a.logs # <<>> =>
                /\ a.ls = localStorage
                /\ a.ret = addCampaign(data, localStorage, Len(Store) + 1, t).ret
    /\ \A id \in Ids :
          /\ \A updates \in UpdateInputs : \A t \in Readings(2) :
                LET u == updateCampaign(id, updates, localStorage, quota, t)
                IN  u.logs # <<>> =>
                      /\ u.ls = localStorage
                      /\ u.ret # Null
                      /\ u.ret = updateCampaign(id, updates, localStorage, Len(Store), t).ret
          /\ LET d == deleteCampaign(id, localStorage, quota)
             IN  d.logs # <<>> => (d.ls = localStorage /\ d.ret = TRUE)
    /\ (/\ last.op \in {"createCampaign", "updateCampaign", "deleteCampaign"}
        /\ last.reply.status = "rejected"
        /\ WriteFailed) =>
          /\ localStorage = last.before
          /\ Returned
          /\ last.op = "createCampaign" =>
                /\ last.outcome.value.status = "draft"
                /\ last.outcome.value.name = last.args[1].name
          /\ last.op = "updateCampaign" =>
                /\ last.outcome.value.id = last.args[1]
                /\ \A k \in DOMAIN last.args[2] :
                      last.outcome.value[k] = last.args[2][k]
          /\ last.op = "deleteCampaign" => last.outcome.value = Undefined

\* C19 witness: an update fell back, localStorage rejected its write, the
\* merged record was returned and the store does not hold it.
C19_Witness ==
    /\ FellBack("updateCampaign")
    /\ WriteFailed
    /\ Returned
    /\ last.outcome.value.budget = 99
    /\ ~InSeq(last.outcome.value, Store)
    /\ localStorage = last.before

\* C20 (dashboard configuration read): getDashboardConfig returns the
\* default (every widget and chart enabled, layout grid) when the
\* configuration entry is absent or is text that JSON.parse rejects, and
\* otherwise the stored value, which is the argument of the last
\* saveDashboardConfig whose write localStorage took: a save that was
\* written makes its argument the value read, a save that was rejected and
\* every other call leave the configuration entry as it was.  No
\* configuration call changes the campaigns entry and no campaign operation
\* changes the configuration entry.
C20_DashboardConfig ==
    LET item == localStorage[DASHBOARD_CONFIG_KEY]
        config == getDashboardConfig(localStorage)
        Untouched(done) == done.ls[DASHBOARD_CONFIG_KEY] = item
    IN  /\ item \in {NoItem, CorruptItem} =>
              /\ config = defaultDashboardConfig
              /\ \A w \in DOMAIN config.widgets : config.widgets[w]
              /\ \A c \in DOMAIN config.charts : config.charts[c]
              /\ config.layout = "grid"
        /\ item \notin {NoItem, CorruptItem} => config = item.value
        /\ last.op = "saveDashboardConfig" =>
              /\ last.logs = <<>> => config = last.args[1]
              /\ last.logs # <<>> => localStorage = last.before
              /\ localStorage[CAMPAIGNS_KEY] = last.before[CAMPAIGNS_KEY]
        /\ last.op = "getDashboardConfig" =>
              /\ localStorage = last.before
              /\ last.outcome = Return(config)
        /\ last.op \notin {"none", "saveDashboardConfig"} =>
              item = last.before[DASHBOARD_CONFIG_KEY]
        /\ \A reply \in {Resolved(RemoteCampaign)} \cup Rejections :
              /\ \A filters \in FilterInputs :
                    Untouched(campaignService_getCampaigns(filters, reply, localStorage))
              /\ \A data \in CreateInputs : \A t \in Readings(5) :
                    Untouched(campaignService_createCampaign(
                                  data, reply, localStorage, quota, t))
              /\ \A rnd \in RandomDraws :
                    Untouched(campaignService_getDashboardStats(reply, localStorage, rnd))
              /\ \A id \in Ids :
                    /\ Untouched(campaignService_getCampaign(id, reply, localStorage))
                    /\ Untouched(campaignService_deleteCampaign(id, reply, localStorage, quota))
                    /\ Untouched(campaignService_getCampaignStats(id, reply, localStorage))
                    /\ \A updates \in UpdateInputs : \A t \in Readings(2) :
                          Untouched(campaignService_updateCampaign(
                                        id, updates, reply, localStorage, quota, t))

\* C20 witness: a list layout was saved, a campaign was then created
\* locally, and the configuration read afterwards is the saved one.
C20_Witness ==
    /\ last.op = "getDashboardConfig"
    /\ last.outcome.value = [defaultDashboardConfig EXCEPT !.layout = "list"]
    /\ Len(Store) = 1

\* C21 (stats counts): in every state and for every draw of the random
\* numbers, calculateRealStats reports totalCampaigns.value equal to the
\* length of the stored sequence and activeCampaigns.value equal to the
\* number of stored campaigns whose status is active, hence at most
\* totalCampaigns.value; the dashboard figures of the fallback path are the
\* same two numbers.
C21_StatsCounts ==
    LET active == Cardinality({i \in 1..Len(Store) : Store[i].status = "active"})
    IN  /\ \A rnd \in RandomDraws :
              LET stats == calculateRealStats(localStorage, rnd)
              IN  /\ stats.totalCampaigns.value = Len(Store)
                  /\ stats.activeCampaigns.value = active
                  /\ stats.activeCampaigns.value <= stats.totalCampaigns.value
        /\ FellBack("getDashboardStats") =>
              /\ last.outcome.value.total_campaigns = Len(Store)
              /\ last.outcome.value.active_campaigns = active

\* C21 witness: the dashboard statistics fell back onto a store of two
\* campaigns of which one is active.
C21_Witness ==
    /\ FellBack("getDashboardStats")
    /\ last.outcome.value.total_campaigns = 2
    /\ last.outcome.value.active_campaigns = 1

\* C22 (totalSpend), as claimed: totalSpend.value is the sum over the stored
\* campaigns of stats.spend where the campaign has that figure, a figure of
\* zero counting as zero, and of the budget only where it has none.
C22_TotalSpend ==
    \A rnd \in RandomDraws :
        calculateRealStats(localStorage, rnd).totalSpend.value
            = MetricSum(Store, Len(Store), "spend", "budget")

\* C23 (the stats engine is idempotent and writes nothing): in every state,
\* two calls of calculateRealStats on the stored sequence, whatever their
\* random draws, report the same value for each of the six metrics; the
\* dashboard statistics of the fallback path, which call it, leave both
\* stored entries as they were, and a second call then returns what the
\* first returned.
C23_StatsIdempotent ==
    /\ \A rnd1, rnd2 \in RandomDraws :
          LET first == calculateRealStats(localStorage, rnd1)
              second == calculateRealStats(localStorage, rnd2)
          IN  /\ DOMAIN first = {StatNames[i] : i \in 1..6}
              /\ \A n \in DOMAIN first : first[n].value = second[n].value
    /\ \A reply \in Rejections : \A rnd1, rnd2 \in RandomDraws :
          LET first == campaignService_getDashboardStats(reply, localStorage, rnd1)
              second == campaignService_getDashboardStats(reply, first.ls, rnd2)
          IN  /\ first.ls = localStorage
              /\ second.ls = localStorage
              /\ second.outcome = first.outcome
    /\ FellBack("getDashboardStats") =>
          /\ localStorage = last.before
          /\ \A rnd \in RandomDraws :
                campaignService_getDashboardStats(last.reply, localStorage, rnd).outcome
                    = last.outcome

\* C23 witness: the dashboard statistics fell back onto a store that holds a
\* campaign, and two calls of calculateRealStats on it agree on every value
\* but not on the change of totalSpend.
C23_Witness ==
    /\ FellBack("getDashboardStats")
    /\ Len(Store) >= 1
    /\ \E rnd1, rnd2 \in RandomDraws :
          /\ calculateRealStats(localStorage, rnd1).totalSpend.change
                # calculateRealStats(localStorage, rnd2).totalSpend.change
          /\ calculateRealStats(localStorage, rnd1).totalSpend.value
                = calculateRealStats(localStorage, rnd2).totalSpend.value

\* C24 (last writer wins): when an updateCampaign call has fallen back and
\* written, and another updateCampaign call for the same id, in flight at
\* the same time, fell back and wrote before it, the stored record of that
\* id holds, for every field both calls provide, the value of the call that
\* wrote last.
C24_LastWriterWins ==
    (last.op = "updateCampaign" /\ Returned) =>
        \A i \in 1..Len(last.earlier) :
            LET earlier == last.earlier[i]
            IN  (/\ earlier.op = "updateCampaign"
                 /\ earlier.args[1] = last.args[1]
                 /\ earlier.outcome.kind = "return") =>
                    \A k \in DOMAIN earlier.args[2] \cap DOMAIN last.args[2] :
                        getCampaignById(last.args[1], localStorage)[k]
                            = last.args[2][k]

\* C24 witness: two updates of the same campaign were in flight together;
\* the one giving budget 99 wrote first, the one giving budget 50 wrote
\* last, and the stored budget is 50.
C24_Witness ==
    /\ last.op = "updateCampaign" /\ Returned
    /\ last.args[2] = [budget |-> 50]
    /\ Len(last.earlier) = 1
    /\ last.earlier[1].op = "updateCampaign"
    /\ last.earlier[1].args = <<last.args[1], [budget |-> 99]>>
    /\ last.earlier[1].outcome.kind = "return"
    /\ getCampaignById(last.args[1], localStorage).budget = 50

\* C25 (the two stores are never synchronised): the request a service call
\* sends is made of the call's arguments alone: it is the request the same
\* call sends when nothing is stored locally, its body (create, update) is
\* the caller's data and is no stored record, and the other requests have no
\* body; a call the backend answers leaves the local store as it was; and
\* every stored campaign was built locally by addCampaign (timestamp id,
\* placeholder owner, nested stats), none is the record the backend returns.
C25_NoSynchronisation ==
    /\ last.op # "none" =>
          LET nothingStored == [last.before EXCEPT ![CAMPAIGNS_KEY] = NoItem]
          IN  /\ last.request = request(last.op, last.args, nothingStored)
              /\ last.op = "createCampaign" => last.request.body = last.args[1]
              /\ last.op = "updateCampaign" => last.request.body = last.args[2]
              /\ last.op \notin {"createCampaign", "updateCampaign"} =>
                    "body" \notin DOMAIN last.request
              /\ "body" \in DOMAIN last.request =>
                    ~InSeq(last.request.body, StoreBefore)
              /\ last.reply.status = "resolved" => localStorage = last.before
    /\ \A i \in 1..Len(Store) :
          /\ Store[i] # RemoteCampaign
          /\ Store[i].id # RemoteCampaign.id
          /\ Store[i].id \in Ids
          /\ Store[i].user_id = "1"
          /\ "stats" \in DOMAIN Store[i]

\* C25 witness: a campaign was created locally while the backend was away;
\* the backend is back and answers a create, whose request carried the new
\* campaign's fields only; the local campaign is still local only.
C25_Witness ==
    /\ last.op = "createCampaign"
    /\ last.reply.status = "resolved"
    /\ Len(StoreBefore) >= 1
    /\ last.request = [method |-> "POST", url |-> <<"/campaigns">>,
                       body |-> last.args[1]]
    /\ Store = StoreBefore

\* The two shapes of a stored campaign's metrics agree
CountersAgree(c) ==
    /\ {"views_count", "clicks_count", "conversions_count", "stats"} \subseteq DOMAIN c
    /\ c.views_count = c.stats.views
    /\ c.clicks_count = c.stats.clicks
    /\ c.conversions_count = c.stats.conversions

StoredCountersAgree == \A i \in 1..Len(Store) : CountersAgree(Store[i])

Target(call) ==
    IF call.op = "createCampaign" THEN call.outcome.value.id ELSE call.args[1]

\* Two calls the claim calls independent: two creates, calls on campaigns
\* of different ids, or updates of different fields of one campaign
Independent(a, b) ==
    \/ a.op = "createCampaign" /\ b.op = "createCampaign"
    \/ Target(a) # Target(b)
    \/ /\ a.op = "updateCampaign" /\ b.op = "updateCampaign"
       /\ DOMAIN a.args[2] \cap DOMAIN b.args[2] = {}

\* The store shows what a completed call did: the record a create returned
\* is stored; the campaign an update found has the fields the update gave;
\* the id a delete removed is stored no more.  A call that raised
\* CampaignNotFound did nothing.
Reflected(call) ==
    CASE call.outcome.kind = "throw" -> TRUE
      [] call.op = "createCampaign" -> InSeq(call.outcome.value, Store)
      [] call.op = "updateCampaign" ->
            LET stored == getCampaignById(call.args[1], localStorage)
            IN  /\ stored # Null
                /\ \A k \in DOMAIN call.args[2] : stored[k] = call.args[2][k]
      [] call.op = "deleteCampaign" -> ~IdIn(call.args[1], Store)

\* C27 (no lost update on the local path): when a call has fallen back and
\* finished, the store reflects its effect and the effect of every call
\* that was in flight with it, finished before it and is independent of
\* all the calls that finished after itself.
C27_NoLostUpdate ==
    (last.op # "none") =>
        /\ Reflected(last)
        /\ \A i \in 1..Len(last.earlier) :
              (/\ Independent(last.earlier[i], last)
               /\ \A j \in (i + 1)..Len(last.earlier) :
                     Independent(last.earlier[i], last.earlier[j]))
                 => Reflected(last.earlier[i])

\* C27 witness: two updates of different fields of the same campaign were
\* in flight together; the one setting the status wrote first, the one
\* setting the budget wrote last, and the stored record has both.
C27_Witness ==
    /\ last.op = "updateCampaign" /\ Returned
    /\ last.args = <<ToString(0), [budget |-> 50]>>
    /\ Len(last.earlier) = 1
    /\ last.earlier[1].op = "updateCampaign"
    /\ last.earlier[1].args = <<ToString(0), [status |-> "active"]>>
    /\ last.earlier[1].outcome.kind = "return"
    /\ getCampaignById(ToString(0), localStorage).status = "active"
    /\ getCampaignById(ToString(0), localStorage).budget = 50

\* The operations that only read
ReadOps ==
    {"getCampaigns", "getCampaign", "getCampaignStats", "getDashboardStats",
     "repository.getCampaigns", "getCampaignById", "getDashboardConfig"}

\* C28 (reads are pure): a reading operation of the service or of the
\* repository leaves both persisted entries as they were, whether the
\* backend answered, the operation fell back, or it raised
\* CampaignNotFound; an absent or unreadable entry stays absent or
\* unreadable.
C28_ReadsArePure ==
    (last.op \in ReadOps) => localStorage = last.before

\* C28 witness: getCampaignStats fell back on a store that holds a campaign
\* but not the one asked for, beside an unreadable configuration entry; it
\* raised CampaignNotFound and both entries are as before.
C28_Witness ==
    /\ FellBack("getCampaignStats")
    /\ last.outcome = Throw("Campaign not found")
    /\ Len(StoreBefore) >= 1
    /\ last.before[DASHBOARD_CONFIG_KEY] = CorruptItem
    /\ localStorage = last.before

\* The limit in effect: the one given, or 10 when none (or zero) is given
EffectiveLimit(filters) ==
    IF Has(filters, "limit") /\ filters.limit # 0 THEN filters.limit ELSE 10

\* The filters select nothing out: no status and no search text
Unfiltered(filters) ==
    /\ ~(Has(filters, "status") /\ filters.status # "")
    /\ ~(Has(filters, "search") /\ filters.search # <<>>)

\* C29 (default pagination on the fallback path): the list returned holds
\* at most as many campaigns as the effective limit (10 when no limit is
\* given) and at most total; total is at most the number stored and, for
\* a status filter alone, the number of stored campaigns of that status;
\* with no page (or page zero) and nothing filtered out, the list is the
\* first stored campaigns, up to the effective limit, and total is the
\* number stored; so with no filters it is the first 10 at most.
C29_DefaultPagination ==
    (FellBack("getCampaigns") /\ Returned) =>
        LET filters == last.args[1]
            result == last.outcome.value
            stored == StoreBefore
        IN  /\ Len(result.campaigns) <= EffectiveLimit(filters)
            /\ Len(result.campaigns) <= result.total
            /\ result.total <= Len(stored)
            /\ (Has(filters, "status") /\ filters.status # ""
                   /\ ~Has(filters, "search")) =>
                  result.total =
                     Cardinality({i \in 1..Len(stored) :
                                     stored[i].status = filters.status})
            /\ Unfiltered(filters) => result.total = Len(stored)
            /\ (Unfiltered(filters)
                   /\ ~(Has(filters, "page") /\ filters.page # 0)) =>
                  result.campaigns =
                     SubSeq(stored, 1, Min(EffectiveLimit(filters), Len(stored)))
            /\ filters \in {Undefined, EmptyObj} =>
                  result.campaigns = SubSeq(stored, 1, Min(10, Len(stored)))

\* C29 witness: twelve campaigns are stored and the list is asked for with
\* no filters, offline: the first ten come back and total is twelve.
C29_Witness ==
    /\ FellBack("getCampaigns") /\ Returned
    /\ last.args[1] = Undefined
    /\ Len(StoreBefore) = 12
    /\ last.outcome.value.campaigns = SubSeq(StoreBefore, 1, 10)
    /\ last.outcome.value.total = 12

\* The stored sequence after an update that returned: as before, but for
\* the first record of the id, which is the merged record the call returned
UpdatedInPlace ==
    \E i \in 1..Len(StoreBefore) :
        /\ StoreBefore[i].id = last.args[1]
        /\ \A j \in 1..(i - 1) : StoreBefore[j].id # last.args[1]
        /\ Len(Store) = Len(StoreBefore)
        /\ Store[i] = last.outcome.value
        /\ \A j \in 1..Len(Store) : j # i => Store[j] = StoreBefore[j]

\* The stored sequence after a delete that returned: the records of other
\* ids, in their order, and no record of the id
DeletedAll ==
    /\ Store = SelectSeq(StoreBefore, LAMBDA c : c.id # last.args[1])
    /\ getCampaignById(last.args[1], localStorage) = Null

\* C30 as stated: a local update that found the id changed exactly the
\* first record of that id and kept the length and the order of the
\* sequence; a local delete that found the id removed every record of that
\* id and kept the others in order, and getCampaignById(id) then returns
\* null.
C30_UpdateDeleteEffect ==
    /\ (FellBack("updateCampaign") /\ Returned) => UpdatedInPlace
    /\ (FellBack("deleteCampaign") /\ Returned) => DeletedAll

\* C30 (amended): the same when localStorage took the write; when it
\* rejected the write (saveCampaigns logged it) the call still returned the
\* merged record, or returned normally, and the stored sequence is as it
\* was, the deleted id included.
C30_EffectWhenWritten ==
    /\ (FellBack("updateCampaign") /\ Returned) =>
          IF WriteFailed THEN localStorage = last.before ELSE UpdatedInPlace
    /\ (FellBack("deleteCampaign") /\ Returned) =>
          IF WriteFailed
          THEN /\ localStorage = last.before
               /\ getCampaignById(last.args[1], localStorage) # Null
          ELSE DeletedAll

\* C30 witness: two campaigns created in the same millisecond are stored
\* under one id; a delete of that id was written and removed both.
C30_Witness ==
    /\ FellBack("deleteCampaign") /\ Returned
    /\ ~WriteFailed
    /\ Len(StoreBefore) = 2
    /\ StoreBefore[1].id = StoreBefore[2].id
    /\ Store = <<>>
    /\ getCampaignById(last.args[1], localStorage) = Null

====
